---- MODULE Spec2Model ----
(***************************************************************************)
(* HealthVault backend: the record lifecycle (create / list / update /     *)
(* delete of a medical record with its two attachments) and the account    *)
(* deletion cascade, as an HTTP request pipeline over a Mongoose           *)
(* repository and an on-disk attachment store.                             *)
(*                                                                         *)
(* A request runs through  protect -> upload.fields -> controller.  The    *)
(* controller is cut at its awaits: everything between two awaits is one   *)
(* atomic step of the single-threaded event loop.                          *)
(***************************************************************************)
EXTENDS Integers, Sequences, FiniteSets, TLC

VARIABLES
    users,      \* the existing user accounts (User collection)
    profilePicture, \* the profilePicture path of each account's document
    records,    \* the Record collection: _id -> stored document
    disk,       \* the files on disk, each a full path (sequence of segments)
    nextId,     \* next fresh ObjectId for a Record
    nextFile,   \* next fresh generated upload filename
    now,        \* the last value read from the clock
    nextReq,    \* number of requests received so far
    scenario,   \* the run's limits: requests in flight at once, requests in all,
                \* whether the successful writes are logged, who sends requests
    reqs,       \* the requests in flight, by connection slot
    resp        \* the last response sent (with what the request did), and
                \* the log of the successful writes so far

vars == <<users, profilePicture, records, disk, nextId, nextFile, now, nextReq, scenario, reqs, resp>>

-----------------------------------------------------------------------------
(* Bounds of the model *)

MaxRecords == 2
MaxFiles == 3
MaxClock == 1
MaxRequests == 2

Slots == {"a", "b"}

-----------------------------------------------------------------------------
(* Values *)

Users == {"u1", "u2"}
Anonymous == "anonymous"          \* a request without a valid token
Callers == Users \cup {Anonymous}

Undefined == "<undefined>"        \* a field absent from the multipart body

BadId == 0                        \* a :id that is not a valid ObjectId string
RecordIds == 1..MaxRecords
RequestIds == {BadId} \cup RecordIds

ObjectId(s) == <<"ObjectId", s>>
toString(oid) == oid[2]

\* the five String paths of vitalsSchema
VitalsFields == {"bloodPressure", "heartRate", "bloodSugar", "weight", "height"}

-----------------------------------------------------------------------------
(* Paths: path.join over sequences of segments *)

RECURSIVE normalize(_, _)
normalize(done, rest) ==
    IF rest = <<>> THEN done
    ELSE IF Head(rest) = ".."
         THEN normalize(IF done = <<>> THEN <<>> ELSE SubSeq(done, 1, Len(done) - 1),
                        Tail(rest))
         ELSE normalize(Append(done, Head(rest)), Tail(rest))

pathJoin(base, rel) == normalize(<<>>, base \o rel)

\* __dirname of multer.js and of controllers/recordController.js
MulterDirname == <<"Backend">>
ControllerDirname == <<"Backend", "controllers">>

\* multer.js storage.destination
destination(fieldname) ==
    IF fieldname = "profile"
    THEN pathJoin(MulterDirname, <<"uploads", "profile">>)
    ELSE pathJoin(MulterDirname, <<"uploads", "records">>)

\* multer.js storage.filename: `${Date.now()}-${random}${ext}`, unique per upload
filename(n) == ToString(n)

\* the empty string stored in an empty files slot
NoRef == <<>>

\* a reference without the folder
buildPublicPathFlat(folder, name) == <<"uploads", name>>

\* "/uploads/<folder>/<filename>"
buildPublicPath(folder, name) == <<"uploads", folder, name>>

\* path.join(__dirname, "..", publicPath) in deleteFileIfExists
fullPath(publicPath) == pathJoin(ControllerDirname, <<"..">> \o publicPath)

\* a deleteFileIfExists that never unlinks
deleteFileSkipped(d, publicPath) == {[disk |-> d, failed |-> {}, thrown |-> {}]}

\* a deleteFileIfExists without its try/catch: the error of unlinkSync
\* reaches the caller
deleteFileUncaught(d, publicPath) ==
    IF publicPath = NoRef THEN {[disk |-> d, failed |-> {}, thrown |-> {}]}
    ELSE IF fullPath(publicPath) \in d
         THEN {[disk |-> d \ {fullPath(publicPath)}, failed |-> {}, thrown |-> {}],
               [disk |-> d, failed |-> {publicPath}, thrown |-> {publicPath}]}
         ELSE {[disk |-> d, failed |-> {}, thrown |-> {}]}

\* deleteFileIfExists: the outcomes it can have on the disk `d`.  An empty
\* reference or a missing file is a no-op; unlinkSync either removes the file
\* or throws, and the throw is caught and logged (`failed`), so that no error
\* reaches the caller (`thrown`).
deleteFileIfExists(d, publicPath) ==
    IF publicPath = NoRef THEN {[disk |-> d, failed |-> {}, thrown |-> {}]}
    ELSE IF fullPath(publicPath) \in d
         THEN {[disk |-> d \ {fullPath(publicPath)}, failed |-> {}, thrown |-> {}],
               [disk |-> d, failed |-> {publicPath}, thrown |-> {}]}
         ELSE {[disk |-> d, failed |-> {}, thrown |-> {}]}

-----------------------------------------------------------------------------
(* The vitals form field: a JSON text *)

VText(kind, doc) == [kind |-> kind, doc |-> doc]
NoVitalsText == VText("undefined", <<>>)     \* field absent
EmptyVitalsText == VText("empty", <<>>)      \* ""
MalformedVitalsText == VText("malformed", <<>>)  \* e.g. "{bad"
NullVitalsText == VText("null", <<>>)        \* "null"
PrimitiveVitalsText == VText("primitive", <<>>)  \* e.g. "5"
ObjectVitalsText(doc) == VText("object", doc)

\* JavaScript truthiness of the form field (a string or undefined)
truthy(text) == text.kind \notin {"undefined", "empty"}

\* JSON.parse: throws on malformed text
JSONparse(text) ==
    IF text.kind \in {"null", "primitive", "object"}
    THEN [ok |-> TRUE, kind |-> text.kind, doc |-> text.doc]
    ELSE [ok |-> FALSE, kind |-> "error", doc |-> <<>>]

\* Casting a parsed value to the vitalsSchema subdocument (strict schema:
\* unknown keys are dropped); null stays null, a primitive is a cast error.
castVitals(parsed) ==
    IF parsed.kind = "null" THEN [kind |-> "null", doc |-> <<>>]
    ELSE IF parsed.kind = "object"
         THEN [kind |-> "doc",
               doc |-> [f \in (DOMAIN parsed.doc) \cap VitalsFields |-> parsed.doc[f]]]
         ELSE [kind |-> "castError", doc |-> <<>>]

EmptyVitals == [kind |-> "doc", doc |-> <<>>]

-----------------------------------------------------------------------------
(* Request inputs *)

EmptyBody ==
    [user |-> Undefined, title |-> Undefined, medicalHistory |-> Undefined,
     doctorNotes |-> Undefined, vitals |-> NoVitalsText,
     name |-> Undefined, email |-> Undefined]

PriorVitalsDoc == [bloodPressure |-> "120/80", heartRate |-> "70"]
NextVitalsDoc == [heartRate |-> "75", extra |-> "x"]

CreateBodies ==
    { [EmptyBody EXCEPT !.title = "Checkup", !.vitals = ObjectVitalsText(PriorVitalsDoc)],
      [EmptyBody EXCEPT !.title = "Checkup", !.medicalHistory = "asthma",
                        !.doctorNotes = "rest"],
      [EmptyBody EXCEPT !.title = "Checkup", !.user = "u2", !.vitals = EmptyVitalsText],
      [EmptyBody EXCEPT !.title = "Checkup", !.vitals = NullVitalsText],
      [EmptyBody EXCEPT !.title = "Checkup", !.vitals = MalformedVitalsText],
      [EmptyBody EXCEPT !.title = "Checkup", !.vitals = PrimitiveVitalsText],
      [EmptyBody EXCEPT !.title = ""],
      EmptyBody }

UpdateBodies ==
    { EmptyBody,
      [EmptyBody EXCEPT !.title = "Follow-up"],
      [EmptyBody EXCEPT !.title = "Checkup"],
      [EmptyBody EXCEPT !.title = ""],
      [EmptyBody EXCEPT !.medicalHistory = "", !.doctorNotes = "diet"],
      [EmptyBody EXCEPT !.medicalHistory = "allergy", !.doctorNotes = ""],
      [EmptyBody EXCEPT !.user = "u2"],
      [EmptyBody EXCEPT !.user = "u1"],
      [EmptyBody EXCEPT !.vitals = ObjectVitalsText(NextVitalsDoc)],
      [EmptyBody EXCEPT !.vitals = EmptyVitalsText],
      [EmptyBody EXCEPT !.vitals = NullVitalsText],
      [EmptyBody EXCEPT !.vitals = MalformedVitalsText],
      [EmptyBody EXCEPT !.vitals = PrimitiveVitalsText] }

\* which file parts the multipart request carries: the two fields of
\* upload.fields, or a file in a field the route does not list
Parts ==
    {p \in [labReport : BOOLEAN, prescription : BOOLEAN, other : BOOLEAN,
            profile : {FALSE}] :
        p.other => (~p.labReport /\ ~p.prescription)}
NoFiles == [labReport |-> "", prescription |-> "", profile |-> ""]

\* the parts and the bodies sent to PUT /api/users/update
ProfileParts ==
    [labReport : {FALSE}, prescription : {FALSE}, other : {FALSE}, profile : BOOLEAN]
ProfileBodies ==
    { [EmptyBody EXCEPT !.name = "Ann", !.email = "ann@example.org"],
      [EmptyBody EXCEPT !.name = "Ann"] }

\* the bodies sent along with file parts
CreateBodiesWithFiles ==
    { [EmptyBody EXCEPT !.title = "Checkup", !.vitals = ObjectVitalsText(PriorVitalsDoc)],
      [EmptyBody EXCEPT !.title = "Checkup", !.vitals = MalformedVitalsText],
      EmptyBody }

UpdateBodiesWithFiles ==
    { EmptyBody,
      [EmptyBody EXCEPT !.title = "Follow-up", !.vitals = ObjectVitalsText(NextVitalsDoc)],
      [EmptyBody EXCEPT !.title = ""],
      [EmptyBody EXCEPT !.vitals = MalformedVitalsText],
      [EmptyBody EXCEPT !.vitals = PrimitiveVitalsText] }

createInputs(files) == IF files = NoFiles THEN CreateBodies ELSE CreateBodiesWithFiles
updateInputs(files) == IF files = NoFiles THEN UpdateBodies ELSE UpdateBodiesWithFiles

-----------------------------------------------------------------------------
(* Requests in flight and responses *)

NoDoc ==
    [id |-> BadId, user |-> ObjectId(Anonymous), title |-> Undefined,
     medicalHistory |-> "", doctorNotes |-> "", vitals |-> EmptyVitals,
     files |-> [labReport |-> NoRef, prescription |-> NoRef],
     createdAt |-> 0, updatedAt |-> 0]

Idle ==
    [pc |-> "idle", op |-> "none", caller |-> Anonymous, id |-> BadId,
     authed |-> FALSE, body |-> EmptyBody, files |-> NoFiles, wrote |-> {},
     attempted |-> {}, failed |-> {}, unlinked |-> {}, loaded |-> {},
     doc |-> NoDoc, modified |-> {}]

NoResp ==
    [op |-> "none", caller |-> Anonymous, id |-> BadId, authed |-> FALSE,
     body |-> EmptyBody, files |-> NoFiles, wrote |-> {}, attempted |-> {},
     failed |-> {}, unlinked |-> {}, loaded |-> {},
     status |-> 0, message |-> "", json |-> <<>>,
     before |-> {}, after |-> {}, repoChanged |-> FALSE, disk |-> {},
     log |-> <<>>]

\* the stored document of an id, as a set of at most one element
lookup(rs, id) == IF id \in DOMAIN rs THEN {rs[id]} ELSE {}

Busy == {s \in Slots : reqs[s].pc # "idle"}

-----------------------------------------------------------------------------
Init ==
    /\ users = Users
    /\ profilePicture = [u \in Users |-> NoRef]
    /\ records = <<>>
    /\ disk = {}
    /\ nextId = 1
    /\ nextFile = 1
    /\ now = 0
    /\ nextReq = 0
    /\ scenario = [capacity |-> 1, requests |-> MaxRequests, logged |-> FALSE,
                   callers |-> Callers]
    /\ reqs = [s \in Slots |-> Idle]
    /\ resp = NoResp

-----------------------------------------------------------------------------
(* Middleware *)

\* middleware/auth protect: lets a request through when its token names an
\* existing account
protect(caller) == caller \in users

\* upload.fields([{labReport, 1}, {prescription, 1}]) with the disk storage of
\* multer.js: every file part is written under its destination with a fresh
\* generated name, before the controller runs; a file in another field is a
\* MulterError passed to next(err)
uploadFields(parts, n) ==
    LET lab == IF parts.labReport THEN filename(n) ELSE ""
        pre == IF parts.prescription
               THEN filename(IF parts.labReport THEN n + 1 ELSE n) ELSE ""
        stored(fieldname, name) ==
            IF name = "" THEN {} ELSE {pathJoin(destination(fieldname), <<name>>)}
    IN [files |-> [labReport |-> lab, prescription |-> pre, profile |-> ""],
        wrote |-> stored("labReport", lab) \cup stored("prescription", pre),
        count |-> (IF lab = "" THEN 0 ELSE 1) + (IF pre = "" THEN 0 ELSE 1),
        error |-> IF parts.other \/ parts.profile THEN "Unexpected field" ELSE ""]

\* upload.single('profile') with the same storage
uploadSingle(parts, n) ==
    LET name == IF parts.profile THEN filename(n) ELSE "" IN
    [files |-> [labReport |-> "", prescription |-> "", profile |-> name],
     wrote |-> IF name = "" THEN {} ELSE {pathJoin(destination("profile"), <<name>>)},
     count |-> IF name = "" THEN 0 ELSE 1,
     error |-> IF parts.other \/ parts.labReport \/ parts.prescription
               THEN "Unexpected field" ELSE ""]

\* the upload middleware of the route of `op`
upload(op, parts, n) ==
    IF op = "updateProfile" THEN uploadSingle(parts, n) ELSE uploadFields(parts, n)

NoParts ==
    [labReport |-> FALSE, prescription |-> FALSE, other |-> FALSE, profile |-> FALSE]

\* the application's error handler, reached through next(err): 500 "Server
\* error"; server.js sends nothing else, the other server file adds
\* `error: err.message` unless NODE_ENV is production.  The payloads it can
\* send besides the message.
errorHandler(err) == {<<>>, <<[error |-> err]>>}

FreeSlot == IF reqs["a"].pc = "idle" THEN "a" ELSE "b"

\* the clock read by a save: not earlier than the last reading
Times == {t \in {now, now + 1} : t <= MaxClock}

\* the response to request `r`, with what the request did: `before` and
\* `after` are the stored document of r.id around the request's last step,
\* `after` and `d` the collection and the disk that step leaves; a logged run
\* appends the successful create, update and delete requests to the log
respond(r, status, message, json, after, d) ==
    [op |-> r.op, caller |-> r.caller, id |-> r.id, authed |-> r.authed,
     body |-> r.body, files |-> r.files, wrote |-> r.wrote,
     attempted |-> r.attempted, failed |-> r.failed, unlinked |-> r.unlinked,
     loaded |-> r.loaded, status |-> status, message |-> message, json |-> json,
     before |-> lookup(records, r.id), after |-> lookup(after, r.id),
     repoChanged |-> (after # records), disk |-> d,
     log |-> IF scenario.logged /\ status \in {200, 201} /\ r.op \notin {"list", "static", "updateProfile"}
             THEN Append(resp.log, [op |-> r.op, caller |-> r.caller, id |-> r.id,
                                    files |-> r.files, status |-> status])
             ELSE resp.log]

\* a route without protect: upload.fields, then the controller
receiveUnprotected(op, caller, id, parts) ==
    LET up == upload(op, parts, nextFile) IN
    /\ nextReq < scenario.requests
    /\ Cardinality(Busy) < scenario.capacity
    /\ nextReq' = nextReq + 1
    /\ nextFile + up.count - 1 <= MaxFiles
    /\ disk' = disk \cup up.wrote
    /\ nextFile' = nextFile + up.count
    /\ reqs' = [reqs EXCEPT ![FreeSlot] =
                  [Idle EXCEPT !.pc = "handler", !.op = op, !.caller = caller,
                               !.id = id, !.authed = protect(caller),
                               !.files = up.files, !.wrote = up.wrote]]
    /\ resp' = [NoResp EXCEPT !.log = resp.log]
    /\ UNCHANGED <<users, profilePicture, records, nextId, now, scenario>>

\* A request arrives on a route: protect, then (for the routes that have it)
\* upload.fields, then the controller is entered.
receive(op, caller, id, parts) ==
    /\ nextReq < scenario.requests
    /\ Cardinality(Busy) < scenario.capacity
    /\ nextReq' = nextReq + 1
    /\ IF ~protect(caller)
       THEN /\ resp' = respond([Idle EXCEPT !.op = op, !.caller = caller, !.id = id],
                               401, "Not authorized, token failed", <<>>, records, disk)
            /\ UNCHANGED <<users, profilePicture, records, disk, nextId, nextFile, now, scenario, reqs>>
       ELSE LET up == upload(op, parts, nextFile)
                r == [Idle EXCEPT !.op = op, !.caller = caller, !.id = id,
                                  !.authed = TRUE]
            IN
            IF up.error # ""
            THEN /\ \E payload \in errorHandler(up.error) :
                      resp' = respond(r, 500, "Server error", payload, records, disk)
                 /\ UNCHANGED <<users, profilePicture, records, disk, nextId, nextFile, now, scenario,
                                reqs>>
            ELSE
            /\ nextFile + up.count - 1 <= MaxFiles
            /\ disk' = disk \cup up.wrote
            /\ nextFile' = nextFile + up.count
            /\ reqs' = [reqs EXCEPT ![FreeSlot] =
                          [Idle EXCEPT !.pc = "handler", !.op = op, !.caller = caller,
                                       !.id = id, !.authed = TRUE, !.files = up.files,
                                       !.wrote = up.wrote]]
            /\ resp' = [NoResp EXCEPT !.log = resp.log]
            /\ UNCHANGED <<users, profilePicture, records, nextId, now, scenario>>

\* __dirname of server.js
ServerDirname == <<"Backend">>

\* the mount paths of express.static and the directory each one serves
StaticMounts == {"records", "profile"}
staticRoot(mount) == pathJoin(ServerDirname, <<"uploads", mount>>)

\* the URLs "/uploads/<mount>/<name>" a client may ask for: those of the
\* files on disk and those stored in Records
uploadURLs ==
    ({<<"uploads", f[Len(f) - 1], f[Len(f)]>> : f \in disk}
     \cup {records[id].files[slot] :
             id \in DOMAIN records, slot \in {"labReport", "prescription"}})
    \ {NoRef}

\* app.use('/uploads/records', express.static(...)) and the same for
\* /uploads/profile: mounted ahead of the routers, without protect; the file
\* under the mount's directory is sent to whoever asks, a missing file falls
\* through to a 404
RouteStaticUploads ==
    \E caller \in scenario.callers, url \in uploadURLs :
        LET file == pathJoin(staticRoot(url[2]), <<url[3]>>)
            r == [Idle EXCEPT !.op = "static", !.caller = caller]
        IN
        /\ nextReq < scenario.requests
        /\ Cardinality(Busy) < scenario.capacity
        /\ url[2] \in StaticMounts
        /\ nextReq' = nextReq + 1
        /\ resp' = IF file \in disk
                   THEN respond(r, 200, "", <<[file |-> file]>>, records, disk)
                   ELSE respond(r, 404, "Not Found", <<>>, records, disk)
        /\ UNCHANGED <<users, profilePicture, records, disk, nextId, nextFile, now, scenario, reqs>>

\* routes/records.js
RoutePostRecords ==
    \E caller \in scenario.callers, parts \in Parts :
        /\ nextId <= MaxRecords
        /\ receive("create", caller, BadId, parts)

RouteGetRecords ==
    \E caller \in scenario.callers : receive("list", caller, BadId, NoParts)

RoutePutRecord ==
    \E caller \in scenario.callers, id \in RequestIds, parts \in Parts :
        receive("update", caller, id, parts)

RouteDeleteRecord ==
    \E caller \in scenario.callers, id \in RequestIds :
        receive("delete", caller, id, NoParts)

\* routes/users.js
RoutePutUser ==
    \E caller \in scenario.callers, parts \in ProfileParts :
        receive("updateProfile", caller, BadId, parts)

RouteDeleteUser ==
    \E caller \in scenario.callers : receive("deleteAccount", caller, BadId, NoParts)

-----------------------------------------------------------------------------
(* Mongoose documents *)

\* schema validation run by save(): title is required (an empty string fails
\* the required validator of a String path), and a value that could not be
\* cast to the vitals subdocument is a validation error
validate(doc) ==
    /\ doc.title \notin {Undefined, ""}
    /\ doc.vitals.kind # "castError"

\* String paths with default ''
withDefault(v) == IF v = Undefined THEN "" ELSE v

finish(s, response) ==
    /\ reqs' = [reqs EXCEPT ![s] = Idle]
    /\ resp' = response

-----------------------------------------------------------------------------
(* controllers/recordController.js *)

\* an owner taken from the request body when it names one
createOwnerFromBody(userId, body) ==
    IF body.user # Undefined THEN ObjectId(body.user) ELSE ObjectId(userId)

\* the owner a new Record is given
createOwner(userId, body) == ObjectId(userId)

\* createRecord: builds the document, attaches the uploaded files, saves
createRecord(s) ==
    \E body \in createInputs(reqs[s].files) :
    LET r == [reqs[s] EXCEPT !.body = body]
        parsed == JSONparse(body.vitals)
        fileRef(name) == IF name = "" THEN NoRef ELSE buildPublicPath("records", name)
        doc(t) ==
            [id |-> nextId,
             user |-> createOwner(r.caller, body),
             title |-> body.title,
             medicalHistory |-> withDefault(body.medicalHistory),
             doctorNotes |-> withDefault(body.doctorNotes),
             vitals |-> IF truthy(body.vitals) THEN castVitals(parsed) ELSE EmptyVitals,
             files |-> [labReport |-> fileRef(r.files.labReport),
                        prescription |-> fileRef(r.files.prescription)],
             createdAt |-> t, updatedAt |-> t]
    IN
    /\ reqs[s].pc = "handler" /\ reqs[s].op = "create"
    /\ IF (truthy(body.vitals) /\ ~parsed.ok) \/ ~validate(doc(now))
       THEN /\ finish(s, respond(r, 500, "Create record failed", <<>>, records, disk))
            /\ UNCHANGED <<users, profilePicture, records, disk, nextId, nextFile, now, nextReq, scenario>>
       ELSE \E t \in Times :
            LET saved == records @@ (nextId :> doc(t)) IN
            /\ records' = saved
            /\ nextId' = nextId + 1
            /\ now' = t
            /\ finish(s, respond([r EXCEPT !.id = nextId], 201, "", <<doc(t)>>, saved, disk))
            /\ UNCHANGED <<users, profilePicture, disk, nextFile, nextReq, scenario>>

\* a find that ignores the filter
findAll(rs, userId) == DOMAIN rs

\* Record.find({ user: userId }): the ids of the matching documents
find(rs, userId) == {id \in DOMAIN rs : rs[id].user = ObjectId(userId)}

\* .sort({ createdAt: -1 }): the orders the sort can return (documents with
\* equal createdAt come in any order)
sort(rs, ids) ==
    LET n == Cardinality(ids) IN
    {o \in [1..n -> ids] :
        /\ \A i, j \in 1..n : i # j => o[i] # o[j]
        /\ \A i, j \in 1..n : i < j => rs[o[i]].createdAt >= rs[o[j]].createdAt}

\* getRecords: Record.find({user}).sort({createdAt: -1})
getRecords(s) ==
    LET r == reqs[s] IN
    /\ r.pc = "handler" /\ r.op = "list"
    /\ \E o \in sort(records, find(records, r.caller)) :
         finish(s, respond(r, 200, "", [i \in DOMAIN o |-> records[o[i]]], records, disk))
    /\ UNCHANGED <<users, profilePicture, records, disk, nextId, nextFile, now, nextReq, scenario>>

\* an ownership check that lets every caller through
isOwnerSkipped(record, caller) == TRUE

\* the ownership check of updateRecord and deleteRecord
isOwner(record, caller) == toString(record.user) = caller

\* `if (req.body.x) record.x = req.body.x`: a truthiness test instead
setIfTruthy(old, new) == IF new \notin {Undefined, ""} THEN new ELSE old

\* `if (req.body.x !== undefined) record.x = req.body.x`
setIfProvided(old, new) == IF new # Undefined THEN new ELSE old

\* vitals merged field by field into the stored structure
setVitalsMerged(old, text) ==
    LET new == castVitals(JSONparse(text)) IN
    IF ~truthy(text) THEN old
    ELSE IF new.kind = "doc" /\ old.kind = "doc"
         THEN [kind |-> "doc",
               doc |-> [f \in (DOMAIN old.doc) \cup (DOMAIN new.doc) |->
                          IF f \in DOMAIN new.doc THEN new.doc[f] ELSE old.doc[f]]]
         ELSE new

\* `if (req.body.vitals) record.vitals = JSON.parse(req.body.vitals)`
setVitals(old, text) == IF truthy(text) THEN castVitals(JSONparse(text)) ELSE old

\* a replacement block that empties the slot no file was uploaded for
replaceRefCleared(old, name) == IF name # "" THEN buildPublicPath("records", name) ELSE NoRef

\* a files slot after the replacement block of updateRecord
replaceRef(old, name) == IF name # "" THEN buildPublicPath("records", name) ELSE old

\* the paths of a loaded document that its setters changed
modifiedPaths(loaded, doc) ==
    {p \in {"user", "title", "medicalHistory", "doctorNotes", "vitals"} :
         doc[p] # loaded[p]}
    \cup {p \in {"labReport", "prescription"} : doc.files[p] # loaded.files[p]}

\* setters that clear the text fields the request leaves out
applyBodyClearing(record, body, files) ==
    [record EXCEPT
       !.title = setIfProvided(@, body.title),
       !.medicalHistory = withDefault(body.medicalHistory),
       !.doctorNotes = withDefault(body.doctorNotes),
       !.vitals = setVitals(@, body.vitals),
       !.files = [labReport |-> replaceRef(@.labReport, files.labReport),
                  prescription |-> replaceRef(@.prescription, files.prescription)]]

\* setters that assign every field of the body, `user` included
applyBodyAssigned(record, body, files) ==
    [record EXCEPT
       !.user = IF body.user # Undefined THEN ObjectId(body.user) ELSE @,
       !.title = setIfProvided(@, body.title),
       !.medicalHistory = setIfProvided(@, body.medicalHistory),
       !.doctorNotes = setIfProvided(@, body.doctorNotes),
       !.vitals = setVitals(@, body.vitals),
       !.files = [labReport |-> replaceRef(@.labReport, files.labReport),
                  prescription |-> replaceRef(@.prescription, files.prescription)]]

\* the setters of updateRecord on the loaded document: the provided fields,
\* the vitals, the references of the uploaded files
applyBody(record, body, files) ==
    [record EXCEPT
       !.title = setIfProvided(@, body.title),
       !.medicalHistory = setIfProvided(@, body.medicalHistory),
       !.doctorNotes = setIfProvided(@, body.doctorNotes),
       !.vitals = setVitals(@, body.vitals),
       !.files = [labReport |-> replaceRef(@.labReport, files.labReport),
                  prescription |-> replaceRef(@.prescription, files.prescription)]]

\* updateRecord up to its `await record.save()`: load, ownership check, set the
\* provided fields, replace the attachments
updateRecord(s) ==
    \E body \in updateInputs(reqs[s].files) :
    LET r == [reqs[s] EXCEPT !.body = body, !.loaded = lookup(records, reqs[s].id)]
        record == records[r.id]
        doc == applyBody(record, body, r.files)
        oldLab == IF r.files.labReport # "" THEN record.files.labReport ELSE NoRef
        oldPre == IF r.files.prescription # "" THEN record.files.prescription ELSE NoRef
    IN
    /\ reqs[s].pc = "handler" /\ reqs[s].op = "update"
    /\ IF r.id = BadId
       THEN /\ finish(s, respond(r, 500, "Update record failed", <<>>, records, disk))
            /\ UNCHANGED disk
       ELSE IF r.id \notin DOMAIN records
       THEN /\ finish(s, respond(r, 404, "Record not found", <<>>, records, disk))
            /\ UNCHANGED disk
       ELSE IF ~isOwner(record, r.caller)
       THEN /\ finish(s, respond(r, 401, "Not authorized", <<>>, records, disk))
            /\ UNCHANGED disk
       ELSE IF truthy(body.vitals) /\ ~JSONparse(body.vitals).ok
       THEN /\ finish(s, respond(r, 500, "Update record failed", <<>>, records, disk))
            /\ UNCHANGED disk
       ELSE \E o1 \in deleteFileIfExists(disk, oldLab) :
            \E o2 \in (IF o1.thrown = {} THEN deleteFileIfExists(o1.disk, oldPre)
                                          ELSE {o1}) :
            LET did == [r EXCEPT !.attempted = {oldLab, oldPre} \ {NoRef},
                                 !.failed = o1.failed \cup o2.failed,
                                 !.unlinked = disk \ o2.disk]
            IN
            /\ disk' = o2.disk
            /\ IF o1.thrown \cup o2.thrown # {}
               THEN finish(s, respond(did, 500, "Update record failed", <<>>,
                                      records, o2.disk))
               ELSE /\ reqs' = [reqs EXCEPT ![s] =
                                  [did EXCEPT !.pc = "saving", !.doc = doc,
                                              !.modified = modifiedPaths(record, doc)]]
                    /\ resp' = resp
    /\ UNCHANGED <<users, profilePicture, records, nextId, nextFile, now, nextReq, scenario>>

\* what save() of a loaded document writes: the modified paths and updatedAt
applyDelta(stored, doc, modified, t) ==
    [stored EXCEPT
       !.user = IF "user" \in modified THEN doc.user ELSE @,
       !.title = IF "title" \in modified THEN doc.title ELSE @,
       !.medicalHistory = IF "medicalHistory" \in modified THEN doc.medicalHistory ELSE @,
       !.doctorNotes = IF "doctorNotes" \in modified THEN doc.doctorNotes ELSE @,
       !.vitals = IF "vitals" \in modified THEN doc.vitals ELSE @,
       !.files = [labReport |-> IF "labReport" \in modified
                                THEN doc.files.labReport ELSE @.labReport,
                  prescription |-> IF "prescription" \in modified
                                   THEN doc.files.prescription ELSE @.prescription],
       !.updatedAt = t]

\* updateRecord from `await record.save()` to the response.  save() of a
\* document that was removed in the meantime throws DocumentNotFoundError
\* when it has a modified path to write; without one it writes nothing, and
\* whether it then notices the removal depends on the Mongoose release, so
\* both outcomes are possible.
updateRecordSave(s) ==
    LET r == reqs[s] IN
    /\ r.pc = "saving" /\ r.op = "update"
    /\ IF ~validate(r.doc) \/ (r.modified # {} /\ r.id \notin DOMAIN records)
       THEN /\ finish(s, respond(r, 500, "Update record failed", <<>>, records, disk))
            /\ UNCHANGED <<records, now>>
       ELSE IF r.modified = {}
       THEN /\ \/ finish(s, respond(r, 200, "", <<r.doc>>, records, disk))
               \/ /\ r.id \notin DOMAIN records
                  /\ finish(s, respond(r, 500, "Update record failed", <<>>,
                                        records, disk))
            /\ UNCHANGED <<records, now>>
       ELSE \E t \in Times :
            LET saved == [records EXCEPT ![r.id] = applyDelta(@, r.doc, r.modified, t)] IN
            /\ records' = saved
            /\ now' = t
            /\ finish(s, respond(r, 200, "", <<[r.doc EXCEPT !.updatedAt = t]>>, saved, disk))
    /\ UNCHANGED <<users, profilePicture, disk, nextId, nextFile, nextReq, scenario>>

\* deleteRecord up to its `await record.deleteOne()`
deleteRecord(s) ==
    LET r == [reqs[s] EXCEPT !.loaded = lookup(records, reqs[s].id)]
        record == records[r.id]
    IN
    /\ r.pc = "handler" /\ r.op = "delete"
    /\ IF r.id = BadId
       THEN /\ finish(s, respond(r, 500, "Delete record failed", <<>>, records, disk))
            /\ UNCHANGED disk
       ELSE IF r.id \notin DOMAIN records
       THEN /\ finish(s, respond(r, 404, "Record not found", <<>>, records, disk))
            /\ UNCHANGED disk
       ELSE IF ~isOwner(record, r.caller)
       THEN /\ finish(s, respond(r, 401, "Not authorized", <<>>, records, disk))
            /\ UNCHANGED disk
       ELSE \E o1 \in deleteFileIfExists(disk, record.files.labReport) :
            \E o2 \in (IF o1.thrown = {}
                       THEN deleteFileIfExists(o1.disk, record.files.prescription)
                       ELSE {o1}) :
            LET did == [r EXCEPT !.attempted = {record.files.labReport,
                                                record.files.prescription} \ {NoRef},
                                 !.failed = o1.failed \cup o2.failed,
                                 !.unlinked = disk \ o2.disk]
            IN
            /\ disk' = o2.disk
            /\ IF o1.thrown \cup o2.thrown # {}
               THEN finish(s, respond(did, 500, "Delete record failed", <<>>,
                                      records, o2.disk))
               ELSE /\ reqs' = [reqs EXCEPT ![s] = [did EXCEPT !.pc = "removing"]]
                    /\ resp' = resp
    /\ UNCHANGED <<users, profilePicture, records, nextId, nextFile, now, nextReq, scenario>>

\* a removal that leaves the collection as it is
withoutKept(rs, gone) == rs

\* the collection without the documents of `gone`
without(rs, gone) == [id \in (DOMAIN rs) \ gone |-> rs[id]]

\* deleteRecord from `await record.deleteOne()` to the response
deleteRecordDeleteOne(s) ==
    LET r == reqs[s]
        left == without(records, {r.id})
    IN
    /\ r.pc = "removing" /\ r.op = "delete"
    /\ records' = left
    /\ finish(s, respond(r, 200, "Record deleted successfully", <<>>, left, disk))
    /\ UNCHANGED <<users, profilePicture, disk, nextId, nextFile, now, nextReq, scenario>>

-----------------------------------------------------------------------------
(* controllers/userController.js *)

\* the path updateProfile stores for an uploaded profile picture
profilePicturePath(name) == <<"uploads", "profilePictures", name>>

\* updateProfile up to its `await User.findOne(...)`: name and email are
\* required
updateProfile(s) ==
    \E body \in ProfileBodies :
    LET r == [reqs[s] EXCEPT !.body = body] IN
    /\ reqs[s].pc = "handler" /\ reqs[s].op = "updateProfile"
    /\ IF body.name = Undefined \/ body.email = Undefined
       THEN finish(s, respond(r, 400, "Name and email required", <<>>, records, disk))
       ELSE /\ reqs' = [reqs EXCEPT ![s] = [r EXCEPT !.pc = "savingUser"]]
            /\ resp' = resp
    /\ UNCHANGED <<users, profilePicture, records, disk, nextId, nextFile, now, nextReq,
                   scenario>>

\* updateProfile from the result of findOne to the response: the email may be
\* another account's; otherwise the fields and, with an uploaded file, the
\* profilePicture path are set and the user document is saved (a document
\* removed in the meantime makes save() throw).  Of the user document only
\* profilePicture is kept in the model.
updateProfileSave(s) ==
    LET r == reqs[s]
        picture == IF r.files.profile # ""
                   THEN profilePicturePath(r.files.profile)
                   ELSE profilePicture[r.caller]
    IN
    /\ r.pc = "savingUser" /\ r.op = "updateProfile"
    /\ \/ /\ finish(s, respond(r, 400, "Email already in use", <<>>, records, disk))
          /\ UNCHANGED profilePicture
       \/ IF r.caller \in users
          THEN /\ profilePicture' = [profilePicture EXCEPT ![r.caller] = picture]
               /\ finish(s, respond(r, 200, "", <<[profilePicture |-> picture]>>,
                                     records, disk))
          ELSE /\ finish(s, respond(r, 500, "err.message", <<>>, records, disk))
               /\ UNCHANGED profilePicture
    /\ UNCHANGED <<users, records, disk, nextId, nextFile, now, nextReq, scenario>>

\* deleteAccount: `await Record.deleteMany({ user: req.user._id })`; the
\* documents it removes are kept in `loaded`
deleteAccount(s) ==
    LET r == reqs[s]
        theirs == find(records, r.caller)
    IN
    /\ r.pc = "handler" /\ r.op = "deleteAccount"
    /\ records' = without(records, theirs)
    /\ reqs' = [reqs EXCEPT ![s] = [r EXCEPT !.pc = "deletingUser",
                                             !.loaded = {records[id] : id \in theirs}]]
    /\ UNCHANGED <<users, profilePicture, disk, nextId, nextFile, now, nextReq, scenario, resp>>

\* deleteAccount: `await User.findByIdAndDelete(req.user._id)` and the response
deleteAccountUser(s) ==
    LET r == reqs[s] IN
    /\ r.pc = "deletingUser" /\ r.op = "deleteAccount"
    /\ users' = users \ {r.caller}
    /\ profilePicture' = [profilePicture EXCEPT ![r.caller] = NoRef]
    /\ finish(s, respond(r, 200, "Account and records deleted", <<>>, records, disk))
    /\ UNCHANGED <<records, disk, nextId, nextFile, now, nextReq, scenario>>

-----------------------------------------------------------------------------
Next ==
    \/ RoutePostRecords
    \/ RouteGetRecords
    \/ RoutePutRecord
    \/ RouteDeleteRecord
    \/ RouteDeleteUser
    \/ RouteStaticUploads
    \/ \E s \in Slots : createRecord(s)
    \/ \E s \in Slots : getRecords(s)
    \/ \E s \in Slots : updateRecord(s)
    \/ \E s \in Slots : updateRecordSave(s)
    \/ \E s \in Slots : deleteRecord(s)
    \/ \E s \in Slots : deleteRecordDeleteOne(s)
    \/ RoutePutUser
    \/ \E s \in Slots : updateProfile(s)
    \/ \E s \in Slots : updateProfileSave(s)
    \/ \E s \in Slots : deleteAccount(s)
    \/ \E s \in Slots : deleteAccountUser(s)

Spec == Init /\ [][Next]_vars

\* A longer sequential run, one request more than in Spec, with the
\* successful writes logged: the lifecycle of a Record (create, update, delete) and
\* repeated requests on the same id
InitLifecycle ==
    /\ users = Users
    /\ profilePicture = [u \in Users |-> NoRef]
    /\ records = <<>>
    /\ disk = {}
    /\ nextId = 1
    /\ nextFile = 1
    /\ now = 0
    /\ nextReq = 0
    /\ scenario = [capacity |-> 1, requests |-> MaxRequests + 1, logged |-> TRUE,
                   callers |-> Callers]
    /\ reqs = [s \in Slots |-> Idle]
    /\ resp = NoResp

SpecLifecycle == InitLifecycle /\ [][Next]_vars

\* Requests of one user that overlap: up to two in flight at once, each
\* advancing from await to await in any interleaving
InitConcurrent ==
    /\ users = Users
    /\ profilePicture = [u \in Users |-> NoRef]
    /\ records = <<>>
    /\ disk = {}
    /\ nextId = 1
    /\ nextFile = 1
    /\ now = 0
    /\ nextReq = 0
    /\ scenario = [capacity |-> 2, requests |-> MaxRequests + 1, logged |-> TRUE,
                   callers |-> {"u1"}]
    /\ reqs = [s \in Slots |-> Idle]
    /\ resp = NoResp

SpecConcurrent == InitConcurrent /\ [][Next]_vars

-----------------------------------------------------------------------------
(* Properties *)

AttachmentSlots == {"labReport", "prescription"}

\* the last response answers an update or delete that passed protect and
\* whose findById returned a Record
FoundByCaller ==
    /\ resp.op \in {"update", "delete"}
    /\ resp.authed
    /\ resp.loaded # {}

CallerOwns == \A r \in resp.loaded : toString(r.user) = resp.caller

\* C1: an update or delete of an existing Record by an authenticated caller
\* who is not its owner is answered 401 "Not authorized" (not 404, not a
\* success) and leaves the stored Record, and the whole collection, as it was.
C1_NonOwnerRejected ==
    (FoundByCaller /\ ~CallerOwns)
        => /\ resp.status = 401
           /\ resp.message = "Not authorized"
           /\ resp.after = resp.loaded
           /\ resp.before = resp.loaded
           /\ ~resp.repoChanged

C1_Witness ==
    /\ FoundByCaller /\ ~CallerOwns
    /\ resp.op = "update"
    /\ resp.files.labReport # ""
    /\ resp.status = 401

\* C2: an update or delete by a caller who is not the Record's owner writes no
\* file to and deletes no file from the attachment store, neither while the
\* request waits for its ownership check nor by the time it is answered.
C2_NoFileChangeByNonOwner ==
    /\ \A s \in Slots :
         (/\ reqs[s].pc = "handler"
          /\ reqs[s].op \in {"update", "delete"}
          /\ reqs[s].id \in DOMAIN records
          /\ toString(records[reqs[s].id].user) # reqs[s].caller)
            => reqs[s].wrote = {}
    /\ (FoundByCaller /\ ~CallerOwns) => (resp.wrote = {} /\ resp.unlinked = {})

\* C3: an update or delete of an id that names no Record is answered 404 and
\* leaves the collection unchanged.
C3_MissingIdNotFound ==
    (/\ resp.op \in {"update", "delete"}
     /\ resp.authed
     /\ resp.loaded = {}
     /\ resp.before = {})
        => (resp.status = 404 /\ ~resp.repoChanged)

\* C4: after a successful update, each of title, medicalHistory, doctorNotes
\* and vitals that the request left out has the value it had before.
C4_PartialUpdate ==
    (resp.op = "update" /\ resp.status = 200)
        => /\ resp.after # {}
           /\ \A b \in resp.before, a \in resp.after :
                /\ resp.body.title = Undefined => a.title = b.title
                /\ resp.body.medicalHistory = Undefined
                      => a.medicalHistory = b.medicalHistory
                /\ resp.body.doctorNotes = Undefined => a.doctorNotes = b.doctorNotes
                /\ resp.body.vitals.kind = "undefined" => a.vitals = b.vitals

C4_Witness ==
    /\ resp.op = "update" /\ resp.status = 200
    /\ resp.body.title = Undefined
    /\ resp.body.medicalHistory = Undefined
    /\ resp.body.vitals.kind = "object"
    /\ \E b \in resp.before, a \in resp.after :
         /\ b.medicalHistory # ""
         /\ a.medicalHistory = b.medicalHistory
         /\ a.vitals # b.vitals

\* C5 as stated: an update by the owner that supplies an empty title,
\* medicalHistory or doctorNotes succeeds and stores the empty string.
C5_EmptyOverwrites ==
    (FoundByCaller /\ CallerOwns /\ resp.op = "update")
        => /\ resp.body.title = ""
                => (resp.status = 200 /\ \A a \in resp.after : a.title = "")
           /\ resp.body.medicalHistory = ""
                => (resp.status = 200 /\ \A a \in resp.after : a.medicalHistory = "")
           /\ resp.body.doctorNotes = ""
                => (resp.status = 200 /\ \A a \in resp.after : a.doctorNotes = "")

\* C5 amended: an empty medicalHistory or doctorNotes supplied by the owner
\* overwrites the stored value; an empty title is refused by the schema
\* (title is required): the update is answered 500 and the Record is unchanged.
C5_EmptyTextOverwritesTitleRefused ==
    (FoundByCaller /\ CallerOwns /\ resp.op = "update")
        => /\ resp.body.title = ""
                => /\ resp.status = 500
                   /\ resp.message = "Update record failed"
                   /\ resp.after = resp.loaded
           /\ (resp.body.title # "" /\ resp.body.vitals.kind \notin {"malformed", "primitive"})
                => /\ resp.status = 200
                   /\ resp.body.medicalHistory = ""
                        => \A a \in resp.after : a.medicalHistory = ""
                   /\ resp.body.doctorNotes = ""
                        => \A a \in resp.after : a.doctorNotes = ""

C5_Witness ==
    /\ FoundByCaller /\ CallerOwns /\ resp.op = "update"
    /\ resp.body.medicalHistory = ""
    /\ \E b \in resp.before, a \in resp.after :
         b.medicalHistory # "" /\ a.medicalHistory = ""

\* C6: after a successful update that supplies a vitals object, the stored
\* vitals hold exactly the supplied fields with the supplied values; a vitals
\* field the object leaves out is absent, whatever it held before.
C6_VitalsReplaced ==
    (resp.op = "update" /\ resp.status = 200 /\ resp.body.vitals.kind = "object")
        => \A a \in resp.after :
             /\ a.vitals.kind = "doc"
             /\ DOMAIN a.vitals.doc = (DOMAIN resp.body.vitals.doc) \cap VitalsFields
             /\ \A f \in DOMAIN a.vitals.doc : a.vitals.doc[f] = resp.body.vitals.doc[f]

C6_Witness ==
    /\ resp.op = "update" /\ resp.status = 200 /\ resp.body.vitals.kind = "object"
    /\ \E b \in resp.before, a \in resp.after :
         /\ b.vitals.kind = "doc"
         /\ "bloodPressure" \in DOMAIN b.vitals.doc
         /\ "bloodPressure" \notin DOMAIN a.vitals.doc
         /\ b.vitals.doc["heartRate"] # a.vitals.doc["heartRate"]

\* C7: every stored Record has a vitals structure, never null.
C7_VitalsPresent ==
    \A id \in DOMAIN records : records[id].vitals.kind = "doc"

\* C8: a successful create persists and returns a Record whose owner is the
\* authenticated caller and whose createdAt equals its updatedAt.
C8_CreateOwnerAndTimestamps ==
    (resp.op = "create" /\ resp.status = 201)
        => /\ resp.after # {}
           /\ \A a \in resp.after :
                /\ a.user = ObjectId(resp.caller)
                /\ a.createdAt = a.updatedAt
                /\ resp.json = <<a>>

C8_Witness ==
    /\ resp.op = "create" /\ resp.status = 201
    /\ resp.body.user \notin {Undefined, resp.caller}

\* C9: every stored Record has one owner, a user identity, and no step of any
\* request changes the owner of a Record that stays stored; a new Record gets
\* a fresh id.
C9_OwnerNeverReassigned ==
    /\ [](\A id \in DOMAIN records : records[id].user \in {ObjectId(u) : u \in Users})
    /\ [][\A id \in DOMAIN records' :
             IF id \in DOMAIN records
             THEN records'[id].user = records[id].user
             ELSE id = nextId /\ nextId' > nextId]_vars

C9_Witness ==
    /\ resp.op = "update" /\ resp.status = 200
    /\ resp.body.user \notin {Undefined, resp.caller}

\* the last response answers a successful update that uploaded a file for a
\* slot that held a reference
Replaced(slot) ==
    /\ resp.op = "update" /\ resp.status = 200
    /\ resp.files[slot] # ""
    /\ \A b \in resp.before : b.files[slot] # NoRef

\* the file a stored reference "/uploads/..." names
fileOf(ref) == <<"Backend">> \o ref

\* C10 as stated: after such a replacement the slot references the new file,
\* which is stored, and the file referenced before is gone from the store.
C10_OldFileGone ==
    \A slot \in AttachmentSlots :
        Replaced(slot)
            => \A b \in resp.before, a \in resp.after :
                 /\ a.files[slot] = <<"uploads", "records", resp.files[slot]>>
                 /\ fileOf(a.files[slot]) \in resp.disk
                 /\ fileOf(b.files[slot]) \notin resp.disk

\* C10 amended: after such a replacement the slot references the new file,
\* which is stored; the deletion of the file referenced before was attempted
\* before the new reference was saved, and that file is gone from the store
\* unless its unlink failed.
C10_OldFileDeletionAttempted ==
    /\ \A slot \in AttachmentSlots :
         Replaced(slot)
            => \A b \in resp.before, a \in resp.after :
                 /\ a.files[slot] = <<"uploads", "records", resp.files[slot]>>
                 /\ a.files[slot] # b.files[slot]
                 /\ fileOf(a.files[slot]) \in resp.disk
                 /\ b.files[slot] \in resp.attempted
                 /\ fileOf(b.files[slot]) \in resp.disk => b.files[slot] \in resp.failed
    /\ \A s \in Slots, slot \in AttachmentSlots :
         (reqs[s].pc = "saving" /\ reqs[s].files[slot] # "")
            => \A l \in reqs[s].loaded :
                 l.files[slot] # NoRef
                    => l.files[slot] \in reqs[s].attempted

C10_Witness ==
    /\ Replaced("labReport")
    /\ \E b \in resp.before :
         /\ fileOf(b.files["labReport"]) \in resp.unlinked
         /\ fileOf(b.files["labReport"]) \notin resp.disk

\* C11: an update that uploads no file for a slot leaves the Record's
\* reference in that slot as it was, attempts no deletion of the file the slot
\* references and removes no such file, whether or not a file is uploaded for
\* the other slot and whatever the update's outcome.
C11_SlotWithoutUploadUntouched ==
    /\ \A slot \in AttachmentSlots :
         (resp.op = "update" /\ resp.authed /\ resp.files[slot] = "")
            => \A b \in resp.before :
                 /\ \A a \in resp.after : a.files[slot] = b.files[slot]
                 /\ b.files[slot] \notin resp.attempted
                 /\ fileOf(b.files[slot]) \notin resp.unlinked
                 /\ resp.status = 200 => resp.after # {}
    /\ \A s \in Slots, slot \in AttachmentSlots :
         (reqs[s].pc = "saving" /\ reqs[s].files[slot] = "")
            => \A l \in reqs[s].loaded :
                 /\ reqs[s].doc.files[slot] = l.files[slot]
                 /\ l.files[slot] \notin reqs[s].attempted
                 /\ fileOf(l.files[slot]) \notin reqs[s].unlinked

C11_Witness ==
    /\ resp.op = "update" /\ resp.status = 200
    /\ resp.files["labReport"] = "" /\ resp.files["prescription"] # ""
    /\ \E b \in resp.before, a \in resp.after :
         /\ b.files["labReport"] # NoRef
         /\ b.files["prescription"] # NoRef
         /\ a.files["labReport"] = b.files["labReport"]
         /\ a.files["prescription"] # b.files["prescription"]
         /\ fileOf(b.files["labReport"]) \in resp.disk
         /\ fileOf(b.files["prescription"]) \in resp.unlinked

\* both slots of the Record hold a reference
BothAttached(r) == r.files["labReport"] # NoRef /\ r.files["prescription"] # NoRef

\* C12: a successful delete by the owner of a Record with both slots
\* non-empty has attempted the deletion of both referenced files (each file is
\* gone unless its unlink failed), the attempts were made while the Record was
\* still stored, and afterwards findById of its id returns nothing.
C12_DeleteAttemptsBothThenRemoves ==
    /\ (resp.op = "delete" /\ resp.status = 200)
          => \A l \in resp.loaded :
               /\ toString(l.user) = resp.caller
               /\ resp.after = {}
               /\ l.id \notin DOMAIN records
               /\ BothAttached(l)
                    => \A slot \in AttachmentSlots :
                         /\ l.files[slot] \in resp.attempted
                         /\ fileOf(l.files[slot]) \in resp.disk
                              => l.files[slot] \in resp.failed
    /\ \A s \in Slots :
         (reqs[s].pc = "removing")
            => /\ reqs[s].id \in DOMAIN records
               /\ \A l \in reqs[s].loaded :
                    /\ records[reqs[s].id] = l
                    /\ BothAttached(l)
                         => \A slot \in AttachmentSlots :
                              l.files[slot] \in reqs[s].attempted

C12_Witness ==
    /\ resp.op = "delete" /\ resp.status = 200
    /\ \E l \in resp.loaded :
         /\ BothAttached(l)
         /\ {l.files["labReport"], l.files["prescription"]} \subseteq resp.attempted
         /\ fileOf(l.files["labReport"]) \in resp.unlinked
         /\ l.files["prescription"] \in resp.failed
    /\ resp.before # {} /\ resp.after = {}

\* the successful writes answered before the last response
EarlierWrites ==
    IF resp.status \in {200, 201} /\ resp.op \notin {"list", "static", "updateProfile", "none"}
    THEN SubSeq(resp.log, 1, Len(resp.log) - 1)
    ELSE resp.log

\* the caller of the last response has had a delete of the same id answered
\* with success before
DeletedBefore ==
    \E i \in DOMAIN EarlierWrites :
        /\ EarlierWrites[i].op = "delete"
        /\ EarlierWrites[i].caller = resp.caller
        /\ EarlierWrites[i].id = resp.id

\* C13: when the owner's delete of a Record has been answered with success, a
\* later delete of the same id by the same caller is answered 404 "Record not
\* found", not a success, and changes nothing.
C13_SecondDeleteNotFound ==
    (resp.op = "delete" /\ resp.authed /\ DeletedBefore)
        => /\ resp.status = 404
           /\ resp.message = "Record not found"
           /\ resp.loaded = {}
           /\ ~resp.repoChanged
           /\ resp.unlinked = {}

C13_Witness ==
    /\ resp.op = "delete" /\ resp.authed /\ DeletedBefore
    /\ Len(resp.log) = 2
    /\ resp.log[1].op = "create" /\ resp.log[1].caller = resp.caller
    /\ resp.log[1].id = resp.id
    /\ resp.log[2].op = "delete" /\ resp.log[2].status = 200
    /\ resp.status = 404

\* C14: a list request of an authenticated caller is answered with success
\* and with exactly the stored Records the caller owns, each once, newest
\* createdAt first; a caller who owns none gets the empty sequence.
C14_ListOwnRecordsNewestFirst ==
    (resp.op = "list" /\ resp.authed)
        => LET owned == {id \in DOMAIN records :
                            toString(records[id].user) = resp.caller}
               n == Len(resp.json)
           IN /\ resp.status = 200
              /\ n = Cardinality(owned)
              /\ {resp.json[i].id : i \in 1..n} = owned
              /\ \A i \in 1..n : resp.json[i] = records[resp.json[i].id]
              /\ \A i, j \in 1..n :
                   i < j => resp.json[i].createdAt >= resp.json[j].createdAt
              /\ owned = {} => resp.json = <<>>
              /\ ~resp.repoChanged

C14_Witness ==
    /\ resp.op = "list" /\ resp.authed /\ resp.status = 200
    /\ Len(resp.json) = 2
    /\ resp.json[1].id > resp.json[2].id
    /\ resp.json[1].createdAt > resp.json[2].createdAt

\* the last response answers a request whose input is invalid: a create
\* without title or a create or update with unparsable vitals
InvalidInput ==
    /\ resp.authed
    /\ \/ resp.op = "create"
          /\ (resp.body.title = Undefined \/ resp.body.vitals.kind = "malformed")
       \/ resp.op = "update" /\ FoundByCaller /\ CallerOwns
          /\ resp.body.vitals.kind = "malformed"

\* C15: a create without title or with unparsable vitals, and an update with
\* unparsable vitals, are answered in the client-error class, so that they can
\* be told from a persistence failure (server-error class, 5xx); a caller who
\* is not the owner is answered in the forbidden class (403).
C15_ErrorKindsDistinct ==
    /\ InvalidInput => resp.status \in 400..499
    /\ (FoundByCaller /\ ~CallerOwns) => resp.status = 403

\* C16: a create or update that is answered with an error (missing or empty
\* title, unparsable vitals, 404, 401 of a non-owner, failed save) leaves the
\* collection and the attachment store as they were before the request: it
\* has written no uploaded file and deleted no referenced attachment.
C16_FailedRequestChangesNothing ==
    (resp.op \in {"create", "update"} /\ resp.authed /\ resp.status >= 400)
        => /\ ~resp.repoChanged
           /\ resp.after = resp.before
           /\ resp.wrote = {}
           /\ resp.unlinked = {}

\* the references whose file the last request tried to delete and did not
\* remove: the unlink failed, or the file was already missing
NotRemoved == {ref \in resp.attempted : fileOf(ref) \notin resp.unlinked}

\* the body of the last request passes JSON.parse and the schema
AcceptableBody ==
    /\ resp.body.title # ""
    /\ resp.body.vitals.kind \notin {"malformed", "primitive"}

\* C17: when the deletion of a referenced attachment fails, or its file is
\* already missing, during an update that replaces it or during a delete, the
\* request ends as it would have otherwise: the delete is answered with
\* success and the Record is removed, the update (of an acceptable body) is
\* answered with success and stores the references of the uploaded files.
C17_DeletionFailureSwallowed ==
    (FoundByCaller /\ CallerOwns /\ NotRemoved # {})
        => /\ resp.op = "delete"
                => /\ resp.status = 200
                   /\ resp.message = "Record deleted successfully"
                   /\ resp.after = {}
           /\ (resp.op = "update" /\ AcceptableBody)
                => /\ resp.status = 200
                   /\ \A a \in resp.after, slot \in AttachmentSlots :
                        resp.files[slot] # ""
                           => a.files[slot] = <<"uploads", "records", resp.files[slot]>>
                   /\ resp.after # {}

C17_Witness ==
    /\ FoundByCaller /\ CallerOwns /\ resp.op = "delete" /\ resp.status = 200
    /\ \E l \in resp.loaded :
         /\ l.files["labReport"] \in resp.failed
         /\ l.files["prescription"] \in NotRemoved \ resp.failed
    /\ resp.after = {}

\* C18: after a successful account deletion no Record of that user is stored,
\* and for every attachment reference of the Records removed with the account
\* the deletion of the file was attempted.
C18_AccountDeletionRemovesFiles ==
    (resp.op = "deleteAccount" /\ resp.status = 200)
        => /\ \A id \in DOMAIN records : toString(records[id].user) # resp.caller
           /\ \A l \in resp.loaded, slot \in AttachmentSlots :
                l.files[slot] # NoRef
                   => /\ l.files[slot] \in resp.attempted
                      /\ fileOf(l.files[slot]) \in resp.disk
                           => l.files[slot] \in resp.failed

\* C19: a Record's createdAt never changes once the Record is stored, its
\* updatedAt is never earlier than its createdAt, and every successful update
\* (also one that sends no field and no file, or only values equal to the
\* stored ones) leaves updatedAt strictly later than it was.
C19_TimestampsRefreshed ==
    /\ [](/\ \A id \in DOMAIN records : records[id].updatedAt >= records[id].createdAt
          /\ (resp.op = "update" /\ resp.status = 200)
                => \A b \in resp.before, a \in resp.after : a.updatedAt > b.updatedAt)
    /\ [][\A id \in (DOMAIN records) \cap (DOMAIN records') :
             records'[id].createdAt = records[id].createdAt]_vars

\* the i-th successful write was request `op` of the caller of the last
\* response, on the Record of the last response
Step(i, op) ==
    /\ Len(resp.log) >= i
    /\ resp.log[i].op = op
    /\ resp.log[i].caller = resp.caller
    /\ resp.log[i].id = resp.id

\* the stages of the lifecycle of one Record of one owner: created with a
\* title, vitals and no file; then updated with a labReport file; then deleted
Created ==
    /\ Step(1, "create") /\ resp.log[1].files = NoFiles
Updated ==
    /\ Created /\ Step(2, "update") /\ resp.log[2].files["labReport"] # ""
AfterCreate ==
    /\ resp.op = "create" /\ resp.status = 201 /\ Len(resp.log) = 1 /\ Created
    /\ resp.body.title # Undefined /\ resp.body.vitals.kind = "object"
AfterUpdate ==
    /\ resp.op = "update" /\ resp.status = 200 /\ Len(resp.log) = 2 /\ Updated
AfterDelete ==
    /\ resp.op = "delete" /\ resp.status = 200 /\ Len(resp.log) = 3 /\ Updated
    /\ Step(3, "delete")

\* what C20 says of the first two stages: no reference after the create, a
\* reference to a stored file after the update
C20_CreateThenUpdate ==
    /\ AfterCreate
          => /\ resp.after # {}
             /\ \A a \in resp.after :
                  a.files = [labReport |-> NoRef, prescription |-> NoRef]
    /\ AfterUpdate
          => /\ resp.after # {}
             /\ \A a \in resp.after :
                  /\ a.files["labReport"] = <<"uploads", "records", resp.files["labReport"]>>
                  /\ fileOf(a.files["labReport"]) \in resp.disk

\* C20 as stated: create without files, update with a labReport file, delete;
\* after the delete the Record is absent and the file it referenced is absent
\* from the store.
C20_LifecycleFileGone ==
    /\ C20_CreateThenUpdate
    /\ AfterDelete
          => /\ resp.after = {} /\ resp.id \notin DOMAIN records
             /\ \A l \in resp.loaded :
                  /\ l.files["labReport"] # NoRef
                  /\ fileOf(l.files["labReport"]) \notin resp.disk

\* C20 amended: after the delete the Record is absent, the deletion of the
\* file it referenced was attempted, and the file is absent from the store
\* unless its unlink failed.
C20_LifecycleFileDeletionAttempted ==
    /\ C20_CreateThenUpdate
    /\ AfterDelete
          => /\ resp.after = {} /\ resp.id \notin DOMAIN records
             /\ resp.loaded # {}
             /\ \A l \in resp.loaded :
                  /\ l.files["labReport"]
                        = <<"uploads", "records", resp.log[2].files["labReport"]>>
                  /\ l.files["labReport"] \in resp.attempted
                  /\ fileOf(l.files["labReport"]) \in resp.disk
                        => l.files["labReport"] \in resp.failed

C20_Witness ==
    /\ AfterDelete
    /\ \E l \in resp.loaded :
         /\ l.title = "Checkup"
         /\ "bloodPressure" \in DOMAIN l.vitals.doc
         /\ fileOf(l.files["labReport"]) \in resp.unlinked
         /\ fileOf(l.files["labReport"]) \notin resp.disk

\* the last response answers the later of two successful updates of the same
\* Record by its owner that overlapped: the Record was saved by the other
\* update between this one's findById and its save
UpdatesRaced ==
    /\ resp.op = "update" /\ resp.status = 200
    /\ Busy = {}
    /\ Len(resp.log) >= 2
    /\ Step(Len(resp.log) - 1, "update") /\ Step(Len(resp.log), "update")
    /\ resp.before # {} /\ resp.loaded # resp.before

\* C21: after two overlapping updates of a Record by its owner have both
\* completed, the stored Record equals the document the later save wrote (the
\* later request's loaded copy with its own changes): nothing of the earlier
\* save survives, the two updates are not merged.
C21_LastWriteWins ==
    UpdatesRaced
        => /\ resp.id \in DOMAIN records
           /\ resp.json = <<records[resp.id]>>

RecordOperations == {"create", "list", "update", "delete"}

\* C22: a handler of a record operation runs, and upload.fields stores a
\* file, only for a request that passed protect; a request to a record route
\* without a valid token is answered 401 before anything else happens: it
\* reads no Record, changes no Record and writes or deletes no file.
C22_OnlyAuthenticatedReachHandlers ==
    /\ \A s \in Slots :
         reqs[s].pc # "idle" => (reqs[s].authed /\ reqs[s].caller \in Users)
    /\ (resp.op \in RecordOperations /\ resp.caller \notin Users) => ~resp.authed
    /\ (resp.op \in RecordOperations /\ ~resp.authed)
          => /\ resp.status = 401
             /\ resp.wrote = {} /\ resp.unlinked = {} /\ resp.attempted = {}
             /\ resp.loaded = {} /\ resp.json = <<>>
             /\ ~resp.repoChanged
             /\ resp.disk = disk

C22_Witness ==
    /\ resp.op = "update" /\ resp.caller = Anonymous /\ resp.status = 401
    /\ resp.id \in DOMAIN records
    /\ disk # {}

\* the messages the controllers and the error handler send with an error
ErrorMessages ==
    {"Not authorized, token failed", "Not authorized", "Record not found",
     "Create record failed", "Fetch records failed", "Update record failed",
     "Delete record failed", "Server error"}

\* C23: an error response of a record operation carries a message of a fixed
\* finite set and nothing else: no exception message, path or stack detail.
C23_ErrorPayloadFixed ==
    (resp.op \in RecordOperations /\ resp.status >= 400)
        => /\ resp.message \in ErrorMessages
           /\ resp.json = <<>>

\* the files of the records category of the attachment store
RecordFiles == {f \in disk : SubSeq(f, 1, Len(f) - 1) = destination("labReport")}

\* the (Record, slot) pairs whose reference names the file `f`
Referrers(f) ==
    {<<id, slot>> \in (DOMAIN records) \X AttachmentSlots :
        records[id].files[slot] # NoRef /\ fileOf(records[id].files[slot]) = f}

\* C24: when no request is in progress, every file of the records category
\* is referenced by the labReport or prescription slot of exactly one stored
\* Record.
C24_NoOrphanedAttachments ==
    Busy = {} => \A f \in RecordFiles : Cardinality(Referrers(f)) = 1

\* C25: when no request is in progress, every non-empty labReport or
\* prescription reference of a stored Record names a file that is in the
\* attachment store.
C25_NoDanglingReferences ==
    Busy = {}
        => \A id \in DOMAIN records, slot \in AttachmentSlots :
             records[id].files[slot] # NoRef
                => fileOf(records[id].files[slot]) \in disk

\* C26: of two deletes of the same Record by its owner that overlap, one is
\* answered with success and the other with 404; the two are never both
\* answered with success.
C26_OneDeleteSucceeds ==
    /\ \A i, j \in DOMAIN resp.log :
         (/\ i < j
          /\ resp.log[i].op = "delete" /\ resp.log[j].op = "delete"
          /\ resp.log[i].id = resp.log[j].id)
            => ~(resp.log[i].status = 200 /\ resp.log[j].status = 200)
    /\ (resp.op = "delete" /\ resp.authed /\ DeletedBefore) => resp.status = 404

\* the last response answers an update that lost a race with a delete: the
\* Record it loaded was removed by a successful delete before its save
UpdateRacedDelete ==
    /\ resp.op = "update" /\ resp.loaded # {} /\ resp.before = {}
    /\ \E i \in DOMAIN resp.log :
         resp.log[i].op = "delete" /\ resp.log[i].id = resp.id

\* C27: when an update loads a Record that a delete then removes, and saves
\* after the delete, the Record stays absent (the save does not re-create
\* it), the update is not answered with success, and the file the update
\* uploaded is not left in the attachment store.
C27_LateSaveAfterDelete ==
    UpdateRacedDelete
        => /\ resp.after = {} /\ resp.id \notin DOMAIN records
           /\ resp.status # 200
           /\ resp.wrote \cap resp.disk = {}

\* C28: when no request is in progress, the owner of every stored Record is
\* an existing user account, also after a create of user u that overlapped
\* the deletion of u's account.
C28_OwnersExist ==
    Busy = {} => \A id \in DOMAIN records : toString(records[id].user) \in users

\* the users who own a stored Record that references `file`
OwnersOf(file) ==
    {toString(records[id].user) : id \in {i \in DOMAIN records :
        \E slot \in AttachmentSlots :
            records[i].files[slot] # NoRef /\ fileOf(records[i].files[slot]) = file}}

\* C29: a file of the records category is sent only to a request
\* authenticated as the owner of the Record that references it, never to an
\* unauthenticated request or to another user.
C29_AttachmentOnlyToOwner ==
    (resp.op = "static" /\ resp.status = 200)
        => \A p \in {resp.json[i] : i \in DOMAIN resp.json} :
             p.file \in RecordFiles
                => (resp.authed /\ resp.caller \in OwnersOf(p.file))

\* the reference names the file that the upload middleware wrote for a file
\* of field `fieldname` with the reference's file name
NamesUploadLocation(ref, fieldname) ==
    fullPath(ref) = pathJoin(destination(fieldname), <<ref[Len(ref)]>>)

\* C30: every stored reference to an uploaded file names the location where
\* the upload middleware wrote the file: a Record's labReport and
\* prescription references a file of the records category, a user's
\* profilePicture reference a file of the profile category.
C30_ReferencesNameUploadLocation ==
    /\ \A id \in DOMAIN records : \A slot \in AttachmentSlots :
          records[id].files[slot] # NoRef
             => NamesUploadLocation(records[id].files[slot], slot)
    /\ \A u \in users :
          profilePicture[u] # NoRef
             => NamesUploadLocation(profilePicture[u], "profile")

====
